---------------------------- MODULE Spec2Model ----------------------------
(***************************************************************************)
(* A model of py_entitymatching/debugblocker/debugblocker.py.              *)
(*                                                                         *)
(* Two parts of debug_blocker are modelled.                                *)
(*                                                                         *)
(*  1. The correspondence-list preparation (lines 126-140):                *)
(*     _check_input_field_correspondence_list,                             *)
(*     _get_field_correspondence_list and _filter_corres_list.             *)
(*                                                                         *)
(*  2. The tail of debug_blocker (lines 185-205) together with             *)
(*     debugblocker_cython_parallel and _get_config_num: the candidate     *)
(*     set is indexed, the number of configurations is resolved, one       *)
(*     worker per configuration computes a top-K list, the lists are       *)
(*     merged and the first output_size entries are returned.              *)
(*                                                                         *)
(* The compiled extension (debugblocker_config_cython,                     *)
(* debugblocker_topk_cython, debugblocker_merge_topk_cython) and           *)
(* get_attr_corres are not part of the source file; they are modelled from *)
(* the design document (sections 4.5, 4.6, 4.7 and 6).                     *)
(*                                                                         *)
(* Python indices are 0-based; record indices l_idx, r_idx and             *)
(* configuration indices are kept 0-based here.  Python lists are TLA+     *)
(* sequences (1-based positions).                                          *)
(***************************************************************************)
EXTENDS Integers, Sequences, FiniteSets, TLC

\* ------------------------------------------------------------------ bounds

\* Largest output_size drawn.
MaxK == 2
\* Largest number of configurations the generator emits.
MaxN == 3
\* Largest CPU count of the host.
MaxCpu == 2
\* Longest user-supplied correspondence list.
MaxCorres == 2

\* ----------------------------------------------------------- small helpers

Min(a, b) == IF a < b THEN a ELSE b

Max(a, b) == IF a > b THEN a ELSE b

RECURSIVE GCD(_, _)
GCD(a, b) == IF b = 0 THEN a ELSE GCD(b, a % b)

\* Python's range(n): 0, 1, ..., n-1 as a list; empty when n <= 0.
Range(n) == [i \in 1..n |-> i - 1]

\* The elements of a sequence.
Elems(s) == {s[i] : i \in DOMAIN s}

\* A list with its element at (1-based) position i taken out: list.pop(i-1).
Pop(s, i) == [j \in 1..(Len(s) - 1) |-> IF j < i THEN s[j] ELSE s[j + 1]]

\* All sequences over S of length at most n.
SeqsUpTo(S, n) == UNION {[1..k -> S] : k \in 0..n}


\* ---------------------------------------------------------------- state

VARIABLES
  \* -- correspondence-list preparation (debug_blocker, lines 126-140)
  ltable_dtypes,    \* dtype of each ltable column, aligned with LColumns
  rtable_dtypes,    \* dtype of each rtable column, aligned with RColumns
  attr_none,        \* TRUE when the caller passed attr_corres=None
  attr_corres,      \* the caller's list (<<>> when attr_none)
  auto_corres,      \* what get_attr_corres would derive for these tables
  corres_list,      \* debug_blocker's internal list
  cpc,              \* position in the preparation
  \* -- join tail (debug_blocker lines 185-205, debugblocker_cython_parallel)
  runs,                 \* the calls that are stepped (one, or two side by side)
  lrecord_list,         \* L record store: per record, (token rank, field) tuples
  rrecord_list,         \* R record store
  candidate_set,        \* rows (fk_ltable, fk_rtable) of the candidate set
  output_size,
  n_configs,            \* the n_configs argument
  n_cpus,               \* multiprocessing.cpu_count()
  py_config_lists,      \* the generated configurations
  n_jobs,               \* per call: the n_jobs argument
  pc,                   \* per call: position in the call
  py_cand_set,          \* per call: new_formatted_candidate_set
  n_use,                \* per call: what _get_config_num returned
  rec_lists,            \* per call: config index -> the worker's top-K list
  py_rec_list,          \* per call: the merged list
  ret,                  \* per call: rec_list[0:output_size]
  \* -- feature selection and record stores (debug_blocker lines 142-195)
  ltable_filtered,      \* the filtered L table: a sequence of columns
  rtable_filtered,      \* the filtered R table
  lkey_index,           \* _select_features: position found for l_key
  rkey_index,           \* _select_features: position found for r_key
  feature_list,         \* the selected column positions
  order_dict,           \* token string -> rank
  lrecord_token_list,   \* per L record: the token ranks
  lrecord_index_list,   \* per L record: the field of each token
  rrecord_token_list,
  rrecord_index_list,
  ltable_field_length_list,   \* per L record: tokens per field
  rtable_field_length_list,
  ltable_field_token_sum,     \* per field: tokens over all L records
  rtable_field_token_sum,
  ppc                   \* position in lines 142-195

corresVars == <<ltable_dtypes, rtable_dtypes, attr_none, attr_corres,
                auto_corres, corres_list, cpc>>

joinInputs == <<runs, lrecord_list, rrecord_list, candidate_set,
                output_size, n_configs, n_cpus, py_config_lists, n_jobs>>

joinVars == <<joinInputs, pc, py_cand_set, n_use, rec_lists, py_rec_list, ret>>

\* The join variables other than the two record stores.
joinRest == <<runs, candidate_set, output_size, n_configs, n_cpus,
              py_config_lists, n_jobs, pc, py_cand_set, n_use, rec_lists,
              py_rec_list, ret>>

tableVars == <<ltable_filtered, rtable_filtered>>

storeVars == <<order_dict, lrecord_token_list, lrecord_index_list,
               rrecord_token_list, rrecord_index_list,
               ltable_field_length_list, rtable_field_length_list,
               ltable_field_token_sum, rtable_field_token_sum>>

prepVars == <<tableVars, lkey_index, rkey_index, feature_list, storeVars, ppc>>

vars == <<corresVars, joinVars, prepVars>>

\* ------------------------------------------------- correspondence lists

\* The schemas of the two tables; the first column of each is its key.
LColumns == <<"lid", "la", "lb">>

RColumns == <<"rid", "ra", "rb">>

l_key == "lid"

r_key == "rid"

\* numpy.dtype('O') or a numeric dtype.
DTypes == {"O", "num"}

\* Pairs a caller may pass: every pair of existing columns, and one pair
\* naming a column that ltable does not have.
ValidPairs == {<<l, r>> : l \in Elems(LColumns), r \in Elems(RColumns)}

InputPairs == ValidPairs \cup {<<"zz", "ra">>}

\* get_attr_corres pairs the columns the two schemas have in common, in
\* schema order: here column i of ltable corresponds to column i of rtable.
\* The lists it may derive are the sublists of these pairs.
AlignedPairs == [i \in DOMAIN LColumns |-> <<LColumns[i], RColumns[i]>>]

DerivedLists ==
  {[k \in 1..Cardinality(S) |->
      AlignedPairs[CHOOSE i \in S : Cardinality({j \in S : j < i}) = k - 1]] :
   S \in SUBSET (DOMAIN LColumns)}

\* _build_col_name_index_dict: column name -> (1-based) position.
BuildColNameIndexDict(columns) ==
  [name \in Elems(columns) |-> CHOOSE i \in DOMAIN columns :
      /\ columns[i] = name
      /\ \A j \in DOMAIN columns : columns[j] = name => j <= i]

\* _check_input_field_correspondence_list: TRUE when it returns, FALSE when
\* it raises (a field of the list is in neither schema).
CheckInputFieldCorrespondenceList(isNone, field_corres_list) ==
  \/ isNone
  \/ Len(field_corres_list) = 0
  \/ /\ \A i \in DOMAIN field_corres_list :
          field_corres_list[i][1] \in Elems(LColumns)
     /\ \A i \in DOMAIN field_corres_list :
          field_corres_list[i][2] \in Elems(RColumns)

\* The list _get_field_correspondence_list starts from: the derived one when
\* attr_corres is None or empty, else a copy of attr_corres.
RawCorresList(isNone, given, derived) ==
  IF isNone \/ Len(given) = 0 THEN derived ELSE given

\* A variant of lines 363-367 that puts a missing key pair first.
AppendKeyPairFirst(list) ==
  IF <<l_key, r_key>> \in Elems(list) THEN list
  ELSE <<(<<l_key, r_key>>)>> \o list

\* Lines 363-367: the key pair is appended unless the list contains it.
AppendKeyPair(list) ==
  IF <<l_key, r_key>> \in Elems(list) THEN list
  ELSE Append(list, <<l_key, r_key>>)

\* _get_field_correspondence_list, when it does not raise.
GetFieldCorrespondenceList(isNone, given, derived) ==
  AppendKeyPair(RawCorresList(isNone, given, derived))

\* Line 378-380: the pair at position i is popped.
IsFilteredOut(pair, ldt, rdt) ==
  /\ ldt[BuildColNameIndexDict(LColumns)[pair[1]]] # "O"
  /\ rdt[BuildColNameIndexDict(RColumns)[pair[2]]] # "O"
  /\ pair[1] # l_key
  /\ pair[2] # r_key

\* The loop of _filter_corres_list: positions Len(list), ..., 1 are visited
\* in that order and the pair at a visited position may be popped.
RECURSIVE FilterLoop(_, _, _, _)
FilterLoop(list, i, ldt, rdt) ==
  IF i = 0 THEN list
  ELSE FilterLoop(IF IsFilteredOut(list[i], ldt, rdt) THEN Pop(list, i) ELSE list,
                  i - 1, ldt, rdt)

FilterCorresList(list, ldt, rdt) == FilterLoop(list, Len(list), ldt, rdt)

\* Lines 383-384: the condition under which _filter_corres_list raises.
FilterRaises(list) ==
  /\ Len(list) = 1
  /\ list[1][1] = l_key
  /\ list[1][2] = r_key

\* A variant of lines 352-361 in which corres_list is the caller's list
\* itself whenever the caller gave one.
SharesCallerListWhenGiven(isNone, given) == ~isNone /\ Len(given) > 0

\* Lines 352 and 360-361: corres_list starts as a new list that receives
\* the caller's tuples one by one (or is the list get_attr_corres made), so
\* it is never the caller's list object: what is appended to it or popped
\* from it does not show in attr_corres.
SharesCallerList(isNone, given) == FALSE

\* --- actions

DoCheckInput ==
  /\ cpc = "start"
  /\ cpc' = IF CheckInputFieldCorrespondenceList(attr_none, attr_corres)
            THEN "checked" ELSE "error_check"
  /\ UNCHANGED <<ltable_dtypes, rtable_dtypes, attr_none, attr_corres,
                 auto_corres, corres_list>>
  /\ UNCHANGED <<joinVars, prepVars>>

DoGetFieldCorrespondenceList ==
  /\ cpc = "checked"
  /\ IF Len(RawCorresList(attr_none, attr_corres, auto_corres)) = 0
     THEN /\ cpc' = "error_corres_empty"
          /\ UNCHANGED corres_list
     ELSE /\ cpc' = "corres"
          /\ corres_list' =
               GetFieldCorrespondenceList(attr_none, attr_corres, auto_corres)
  /\ attr_corres' = IF SharesCallerList(attr_none, attr_corres)
                    THEN corres_list' ELSE attr_corres
  /\ UNCHANGED <<ltable_dtypes, rtable_dtypes, attr_none, auto_corres>>
  /\ UNCHANGED <<joinVars, prepVars>>

DoFilterCorresList ==
  /\ cpc = "corres"
  /\ corres_list' = FilterCorresList(corres_list, ltable_dtypes, rtable_dtypes)
  /\ cpc' = IF FilterRaises(corres_list') THEN "error_filter" ELSE "filtered"
  /\ attr_corres' = IF SharesCallerList(attr_none, attr_corres)
                    THEN corres_list' ELSE attr_corres
  /\ UNCHANGED <<ltable_dtypes, rtable_dtypes, attr_none, auto_corres>>
  /\ UNCHANGED <<joinVars, prepVars>>


\* ------------------------------------------------------------ join inputs

\* Field positions in the selected feature list (py_num_fields of them).
Fields == {0, 1}

\* Record indices of the two tables.
LIdx == {0, 1}

RIdx == {0, 1}

\* Records of the record store: <<token rank, field>> entries, token ranks
\* strictly ascending, every field in Fields (what
\* _sort_record_tokens_by_global_order and _get_tokenized_table leave).
RecordPool ==
  { << <<0, 0>>, <<1, 1>> >>,
    << <<0, 0>>, <<2, 1>> >>,
    << <<2, 1>> >>,
    << <<0, 0>>, <<1, 0>> >> }

\* The key columns of the filtered tables: the record id of each record.
ltable_key_column == [i \in LIdx |-> 11 - i]

rtable_key_column == [i \in RIdx |-> 20 + i]

\* Rows a candidate set may hold; 99 and 98 are ids of no record.
CandRows == {<<11, 20>>, <<11, 21>>, <<10, 21>>, <<99, 20>>, <<10, 98>>}

\* _build_id_to_index_map: record id -> record index.
BuildIdToIndexMap(id_col) ==
  [id \in {id_col[i] : i \in DOMAIN id_col} |->
     CHOOSE i \in DOMAIN id_col : id_col[i] = id]

lrecord_id_to_index_map == BuildIdToIndexMap(ltable_key_column)

rrecord_id_to_index_map == BuildIdToIndexMap(rtable_key_column)

\* A variant of _index_candidate_set that files each row under the right
\* record's index (lines 589-592 with l_key_data and r_key_data exchanged).
IndexCandidateSetSwapped(cs, lmap, rmap) ==
  LET known == {row \in cs : row[1] \in DOMAIN lmap /\ row[2] \in DOMAIN rmap}
  IN  [r \in {rmap[row[2]] : row \in known} |->
         {lmap[row[1]] : row \in {k \in known : rmap[k[2]] = r}}]

\* A variant of lines 591-594 that replaces the set of a left record by the
\* row's right record instead of adding to it.
IndexCandidateSetOverwrite(cs, lmap, rmap) ==
  LET known == {row \in cs : row[1] \in DOMAIN lmap /\ row[2] \in DOMAIN rmap}
  IN  [l \in {lmap[row[1]] : row \in known} |->
         LET rs == {rmap[row[2]] : row \in {k \in known : lmap[k[1]] = l}}
         IN {CHOOSE x \in rs : \A y \in rs : y <= x}]

\* _index_candidate_set: a dict from left record index to the set of right
\* record indices; rows with an id missing from either map are skipped.
IndexCandidateSet(cs, lmap, rmap) ==
  LET known == {row \in cs : row[1] \in DOMAIN lmap /\ row[2] \in DOMAIN rmap}
  IN  [l \in {lmap[row[1]] : row \in known} |->
         {rmap[row[2]] : row \in {k \in known : lmap[k[1]] = l}}]

\* ------------------------------------------ configuration count resolution

\* A variant of line 249 that lets n_jobs = 0 through.
ConfigNumRaisesNoJobs(nj, nc) == nc = 0 \/ nc < -2

\* Line 249: _get_config_num raises ValueError.
ConfigNumRaises(nj, nc) == nj = 0 \/ nc = 0 \/ nc < -2

\* Lines 252-260: the requested number before it is clamped.
RequestedConfigs(nj, nc, n_total_configs, cpus) ==
  IF nc = -2 THEN n_total_configs
  ELSE IF nc = -1 THEN (IF nj < 0 THEN cpus + 1 + nj ELSE nj)
  ELSE nc

\* A variant of lines 262-265 without the clamp to n_total_configs.
GetConfigNumUnclamped(nj, nc, n_total_configs, cpus) ==
  RequestedConfigs(nj, nc, n_total_configs, cpus)

\* Lines 262-265.
GetConfigNum(nj, nc, n_total_configs, cpus) ==
  IF RequestedConfigs(nj, nc, n_total_configs, cpus) < n_total_configs
  THEN RequestedConfigs(nj, nc, n_total_configs, cpus)
  ELSE n_total_configs

\* ------------------------- configurations, top-K join and merge (sec. 4.5-4.7)

\* The i-th configuration the generator emits (i = 1, 2, ...): a field mask
\* and a per-field token budget.  The first is the all-fields-equal-budget
\* configuration.
ConfigAt(i) ==
  [mask   |-> [f \in Fields |->
                 IF i = 1 \/ i > Cardinality(Fields) + 1 \/ f = i - 2
                 THEN 1 ELSE 0],
   budget |-> [f \in Fields |-> IF i % 2 = 1 THEN 2 ELSE 1]]

\* debugblocker_config_cython producing n configurations.
ConfigCython(n) == [i \in 1..n |-> ConfigAt(i)]

\* sig_k(T, i): the tokens of the record in fields the mask selects, at most
\* budget[f] of field f, the earliest-ranked first.
Signature(rec, config) ==
  {rec[j][1] : j \in {k \in DOMAIN rec :
      /\ config.mask[rec[k][2]] = 1
      /\ Cardinality({m \in 1..(k - 1) : rec[m][2] = rec[k][2]})
           < config.budget[rec[k][2]]}}

\* A similarity as a fraction in lowest terms, <<numerator, denominator>>.
Fraction(num, den) == <<num \div GCD(num, den), den \div GCD(num, den)>>

SimLess(a, b) == a[1] * b[2] < b[1] * a[2]

\* Jaccard similarity of two signatures with a common token.
Jaccard(sl, sr) ==
  Fraction(Cardinality(sl \cap sr),
           Cardinality(sl) + Cardinality(sr) - Cardinality(sl \cap sr))

\* Membership query of the exclusion index.
Excluded(excl, l, r) == l \in DOMAIN excl /\ r \in excl[l]

\* The entries <<sim, l_idx, r_idx>> a configuration scores: the pairs whose
\* signatures share a token and that the exclusion index does not hold.
ScoredEntries(config, ltokens, rtokens, excl) ==
  {<<Jaccard(Signature(ltokens[l], config), Signature(rtokens[r], config)), l, r>> :
     <<l, r>> \in {p \in (DOMAIN ltokens) \X (DOMAIN rtokens) :
        /\ Signature(ltokens[p[1]], config) \cap Signature(rtokens[p[2]], config) # {}
        /\ ~Excluded(excl, p[1], p[2])}}

\* e1 comes before e2 in the output order: greater sim, then smaller l_idx,
\* then smaller r_idx.
Before(e1, e2) ==
  \/ SimLess(e2[1], e1[1])
  \/ e1[1] = e2[1] /\ e1[2] < e2[2]
  \/ e1[1] = e2[1] /\ e1[2] = e2[2] /\ e1[3] < e2[3]

RECURSIVE SortEntries(_)
SortEntries(S) ==
  IF S = {} THEN <<>>
  ELSE LET first == CHOOSE e \in S : \A o \in S \ {e} : Before(e, o)
       IN  <<first>> \o SortEntries(S \ {first})

Reverse(s) == [i \in 1..Len(s) |-> s[Len(s) + 1 - i]]

Prefix(s, n) == SubSeq(s, 1, Min(Max(n, 0), Len(s)))

\* debugblocker_topk_cython: the K best scored entries of one configuration,
\* in ascending-heap order (worst first).
TopkCython(config, ltokens, rtokens, excl, K) ==
  Reverse(Prefix(SortEntries(ScoredEntries(config, ltokens, rtokens, excl)), K))

\* A variant of the merge that keeps every entry of every list.
MergeTopkKeepAll(lists) ==
  SortEntries(UNION {Elems(lists[i]) : i \in DOMAIN lists})

\* debugblocker_merge_topk_cython: every entry of every list, one entry per
\* (l_idx, r_idx) keeping the greatest sim, in the output order.  It is not
\* given output_size; the caller cuts the list (line 204).
MergeTopkCython(lists) ==
  LET all == UNION {Elems(lists[i]) : i \in DOMAIN lists}
  IN  SortEntries({e \in all :
        \A o \in all : (o[2] = e[2] /\ o[3] = e[3]) => ~SimLess(e[1], o[1])})

\* A variant of line 204 that cuts one entry short: rec_list[0:output_size-1].
TakeOutputShort(rec_list, K) == Prefix(rec_list, K - 1)

\* Line 204: rec_list[0:output_size].
TakeOutput(rec_list, K) == Prefix(rec_list, K)


\* ------------------------------------------------------- join tail: actions

\* f with f[i] set to v (i may be new to f's domain).
Put(f, i, v) == [j \in (DOMAIN f) \cup {i} |-> IF j = i THEN v ELSE f[j]]

\* Line 187: the candidate set is indexed.
DoIndexCandidateSet(r) ==
  /\ pc[r] = "start"
  /\ py_cand_set' = [py_cand_set EXCEPT ![r] =
       IndexCandidateSet(candidate_set, lrecord_id_to_index_map,
                         rrecord_id_to_index_map)]
  /\ pc' = [pc EXCEPT ![r] = "indexed"]
  /\ UNCHANGED <<joinInputs, n_use, rec_lists, py_rec_list, ret>>
  /\ UNCHANGED <<corresVars, prepVars>>

\* Line 236, the ValueError branch of _get_config_num: the call ends.
DoRejectConfigNum(r) ==
  /\ pc[r] = "indexed"
  /\ ConfigNumRaises(n_jobs[r], n_configs)
  /\ pc' = [pc EXCEPT ![r] = "value_error"]
  /\ UNCHANGED <<joinInputs, py_cand_set, n_use, rec_lists, py_rec_list, ret>>
  /\ UNCHANGED <<corresVars, prepVars>>

\* Line 236: the number of configurations to evaluate is resolved.
DoGetConfigNum(r) ==
  /\ pc[r] = "indexed"
  /\ ~ConfigNumRaises(n_jobs[r], n_configs)
  /\ n_use' = [n_use EXCEPT ![r] =
       GetConfigNum(n_jobs[r], n_configs, Len(py_config_lists), n_cpus)]
  /\ pc' = [pc EXCEPT ![r] = "parallel"]
  /\ UNCHANGED <<joinInputs, py_cand_set, rec_lists, py_rec_list, ret>>
  /\ UNCHANGED <<corresVars, prepVars>>

\* Lines 238-241: the worker of configuration i, i in range(n_configs),
\* completes; workers complete in any order and the results are kept by i.
DoWorker(r) ==
  /\ pc[r] = "parallel"
  /\ \E i \in Elems(Range(n_use[r])) \ DOMAIN rec_lists[r] :
       rec_lists' = [rec_lists EXCEPT ![r] = Put(rec_lists[r], i,
         TopkCython(py_config_lists[i + 1], lrecord_list, rrecord_list,
                    py_cand_set[r], output_size))]
  /\ UNCHANGED <<joinInputs, pc, py_cand_set, n_use, py_rec_list, ret>>
  /\ UNCHANGED <<corresVars, prepVars>>

\* Line 243: every worker has completed; the lists are merged in index order.
DoMerge(r) ==
  /\ pc[r] = "parallel"
  /\ DOMAIN rec_lists[r] = Elems(Range(n_use[r]))
  /\ py_rec_list' = [py_rec_list EXCEPT ![r] =
       MergeTopkCython([i \in DOMAIN Range(n_use[r]) |-> rec_lists[r][i - 1]])]
  /\ pc' = [pc EXCEPT ![r] = "merged"]
  /\ UNCHANGED <<joinInputs, py_cand_set, n_use, rec_lists, ret>>
  /\ UNCHANGED <<corresVars, prepVars>>

\* Lines 204-205: the first output_size entries are returned.
DoReturn(r) ==
  /\ pc[r] = "merged"
  /\ ret' = [ret EXCEPT ![r] = TakeOutput(py_rec_list[r], output_size)]
  /\ pc' = [pc EXCEPT ![r] = "done"]
  /\ UNCHANGED <<joinInputs, py_cand_set, n_use, rec_lists, py_rec_list>>
  /\ UNCHANGED <<corresVars, prepVars>>

\* ------------------------------------------------------ feature selection

\* A string is the sequence of its character codes; a text cell is the
\* sequence of the pieces that value.split(' ') yields (a one-piece sequence
\* holding the empty string for the empty cell), and a cell may be null.
Str(pieces) == [null |-> FALSE, pieces |-> pieces]

NaN == [null |-> TRUE, pieces |-> <<>>]

EmptyStr == Str(<< <<>> >>)

\* "a", "b", "A", "a_1" and "b_1" as strings.
tok_a == <<97>>

tok_b == <<98>>

tok_A == <<65>>

tok_a_1 == <<97, 95, 49>>

tok_b_1 == <<98, 95, 49>>

\* A column of a table.
Column(name, values) == [name |-> name, values |-> values]

\* list(table.columns)
ColumnNames(table) == [c \in DOMAIN table |-> table[c].name]

SELECTED_FIELDS_UPPER_BOUND == 8

\* A weight is a fraction <<numerator, denominator>>.
WeightProduct(a, b) == <<a[1] * b[1], a[2] * b[2]>>

WeightLess(a, b) == a[1] * b[2] < b[1] * a[2]

\* Lines 475-491: non_empty_ratio + selectivity of one column.
ColumnWeight(col_values) ==
  LET non_empty == {i \in DOMAIN col_values :
                      ~col_values[i].null /\ col_values[i] # EmptyStr}
      value_set == {col_values[i] : i \in non_empty}
      non_empty_count == Cardinality(non_empty)
      num_records == Len(col_values)
  IN IF non_empty_count = 0
     THEN <<0, 1>>
     ELSE <<non_empty_count * non_empty_count
              + Cardinality(value_set) * num_records,
            num_records * non_empty_count>>

GetFeatureWeight(table) == [c \in DOMAIN table |-> ColumnWeight(table[c].values)]

\* Lines 420-422 and 428-430: the last position (0-based) at which the key
\* is found, -1 when it is not found.
FindKeyIndex(columns, key) ==
  LET hits == {i \in DOMAIN columns : columns[i] = key}
  IN IF hits = {} THEN -1
     ELSE (CHOOSE i \in hits : \A j \in hits : j <= i) - 1

\* The two pops in the other order: the smaller position first.
RemoveKeysSmallerFirst(rank_list, lk, rk) ==
  IF lk = rk
  THEN Pop(rank_list, lk + 1)
  ELSE IF lk > rk
       THEN Pop(Pop(rank_list, rk + 1), lk + 1)
       ELSE Pop(Pop(rank_list, lk + 1), rk + 1)

\* Lines 452-460: the key positions are popped, the larger one first.
RemoveKeys(rank_list, lk, rk) ==
  IF lk = rk
  THEN Pop(rank_list, lk + 1)
  ELSE IF lk > rk
       THEN Pop(Pop(rank_list, lk + 1), rk + 1)
       ELSE Pop(Pop(rank_list, rk + 1), lk + 1)

\* Line 462: sorted(key=weight, reverse=True), a stable sort: the first
\* entry of the largest weight comes first.
RECURSIVE SortByWeight(_)
SortByWeight(rank_list) ==
  IF rank_list = <<>> THEN <<>>
  ELSE LET i == CHOOSE i \in DOMAIN rank_list :
                  /\ \A j \in DOMAIN rank_list :
                       ~WeightLess(rank_list[i].weight, rank_list[j].weight)
                  /\ \A j \in 1..(i - 1) :
                       WeightLess(rank_list[j].weight, rank_list[i].weight)
       IN <<rank_list[i]>> \o SortByWeight(Pop(rank_list, i))

\* Lines 432-466, for tables of equally many columns that hold their keys.
SelectFeatures(ltable, rtable, lkey, rkey) ==
  LET lk == FindKeyIndex(ColumnNames(ltable), lkey)
      rk == FindKeyIndex(ColumnNames(rtable), rkey)
      lweight == GetFeatureWeight(ltable)
      rweight == GetFeatureWeight(rtable)
      rank_list == [i \in DOMAIN lweight |->
                      [index |-> i - 1,
                       weight |-> WeightProduct(lweight[i], rweight[i])]]
      sorted == SortByWeight(RemoveKeys(rank_list, lk, rk))
      num_selected_fields ==
        IF Len(sorted) < SELECTED_FIELDS_UPPER_BOUND
        THEN Len(sorted) ELSE SELECTED_FIELDS_UPPER_BOUND
  IN [i \in 1..num_selected_fields |-> sorted[i].index]

\* Whether _select_features raises: lines 416-431 and 434-436, and the
\* empty table of line 472.
SelectFeaturesRaises(ltable, rtable, lkey, rkey) ==
  \/ Len(ltable) # Len(rtable)
  \/ FindKeyIndex(ColumnNames(ltable), lkey) < 0
  \/ FindKeyIndex(ColumnNames(rtable), rkey) < 0
  \/ \E c \in DOMAIN ltable : Len(ltable[c].values) = 0
  \/ \E c \in DOMAIN rtable : Len(rtable[c].values) = 0

\* Line 147, and the check of lines 149-152.
DoSelectFeatures ==
  /\ ppc = "tables"
  /\ ~SelectFeaturesRaises(ltable_filtered, rtable_filtered, l_key, r_key)
  /\ lkey_index' = FindKeyIndex(ColumnNames(ltable_filtered), l_key)
  /\ rkey_index' = FindKeyIndex(ColumnNames(rtable_filtered), r_key)
  /\ feature_list' =
       SelectFeatures(ltable_filtered, rtable_filtered, l_key, r_key)
  /\ ppc' = IF Len(feature_list') = 0 THEN "error_no_features" ELSE "features"
  /\ UNCHANGED <<tableVars, storeVars>>
  /\ UNCHANGED <<corresVars, joinVars>>

\* Lines 416-436 and 472: _select_features raises, the call ends.
DoSelectFeaturesRaise ==
  /\ ppc = "tables"
  /\ SelectFeaturesRaises(ltable_filtered, rtable_filtered, l_key, r_key)
  /\ ppc' = "error_select"
  /\ UNCHANGED <<tableVars, lkey_index, rkey_index, feature_list, storeVars>>
  /\ UNCHANGED <<corresVars, joinVars>>

\* ------------------------------------------------------------ tokenizer

\* str.lower() on the letters A-Z.
Lower(s) == [i \in DOMAIN s |-> IF s[i] >= 65 /\ s[i] <= 90 THEN s[i] + 32
                                ELSE s[i]]

\* str(k) for k >= 0: the decimal digits.
RECURSIVE Decimal(_)
Decimal(k) == IF k < 10 THEN <<48 + k>>
              ELSE Decimal(k \div 10) \o <<48 + (k % 10)>>

\* The string "_".
Underscore == <<95>>

\* Lines 544-549: the tokens of one cell.
TokenizeCell(cell) ==
  IF cell.null \/ cell = EmptyStr
  THEN << <<>> >>
  ELSE [p \in DOMAIN cell.pieces |-> Lower(cell.pieces[p])]

\* Lines 541-550.
GetTokenizedColumn(col_values) ==
  [i \in DOMAIN col_values |-> TokenizeCell(col_values[i])]

\* table[col]
ColumnByName(table, name) ==
  table[CHOOSE c \in DOMAIN table : table[c].name = name].values

\* Lines 523-525: the (token, j) pairs of record i in the order in which the
\* two inner loops visit them, for the first n columns of tmp_table.
RECURSIVE CellTokens(_, _, _)
CellTokens(tmp_table, i, n) ==
  IF n = 0 THEN <<>>
  ELSE CellTokens(tmp_table, i, n - 1)
       \o [k \in DOMAIN tmp_table[n][i] |-> <<tmp_table[n][i][k], n - 1>>]

\* Lines 527-529: a token already seen in the record is suffixed.
AppendRepeated(prev, token, j) ==
  [token_list |->
     Append(prev.token_list,
            <<token \o Underscore \o Decimal(prev.index_map[token]), j>>),
   index_map |-> Put(prev.index_map, token, prev.index_map[token] + 1)]

\* Lines 525-532: token_list and index_map after the first n pairs.
RECURSIVE TokenLoop(_, _)
TokenLoop(pairs, n) ==
  IF n = 0 THEN [token_list |-> <<>>, index_map |-> <<>>]
  ELSE LET prev == TokenLoop(pairs, n - 1)
           token == pairs[n][1]
           j == pairs[n][2]
       IN IF token = <<>> THEN prev
          ELSE IF token \in DOMAIN prev.index_map
               THEN AppendRepeated(prev, token, j)
               ELSE [token_list |-> Append(prev.token_list, <<token, j>>),
                     index_map |-> Put(prev.index_map, token, 1)]

\* The field recorded with a token is the column's position in the table.
GetTokenizedTableByColumn(table, table_key, features) ==
  LET columns == [j \in DOMAIN features |-> ColumnNames(table)[features[j] + 1]]
      tmp_table == [j \in DOMAIN columns |->
                      GetTokenizedColumn(ColumnByName(table, columns[j]))]
      num_records == Len(ColumnByName(table, table_key))
  IN [i \in 0..(num_records - 1) |->
        LET pairs == CellTokens(tmp_table, i + 1, Len(columns))
            list == TokenLoop(pairs, Len(pairs)).token_list
        IN [k \in DOMAIN list |-> <<list[k][1], features[list[k][2] + 1]>>]]

\* Lines 512-537: per record (0-based), the (token, j) pairs, j being the
\* position of the token's column in the feature list.
GetTokenizedTable(table, table_key, features) ==
  LET columns == [j \in DOMAIN features |-> ColumnNames(table)[features[j] + 1]]
      tmp_table == [j \in DOMAIN columns |->
                      GetTokenizedColumn(ColumnByName(table, columns[j]))]
      num_records == Len(ColumnByName(table, table_key))
  IN [i \in 0..(num_records - 1) |->
        LET pairs == CellTokens(tmp_table, i + 1, Len(columns))
        IN TokenLoop(pairs, Len(pairs)).token_list]

\* Lines 160-161.
DoTokenize ==
  /\ ppc = "features"
  /\ lrecord_list' = GetTokenizedTable(ltable_filtered, l_key, feature_list)
  /\ rrecord_list' = GetTokenizedTable(rtable_filtered, r_key, feature_list)
  /\ ppc' = "tokenized"
  /\ UNCHANGED <<tableVars, lkey_index, rkey_index, feature_list, storeVars>>
  /\ UNCHANGED <<corresVars, joinRest>>

\* Sample cells of a column of the caller's tables; a numeric cell is shown
\* by the string that _replace_nan_to_empty makes of it.
SampleValues(dtype) ==
  IF dtype = "O" THEN <<Str(<<tok_a>>), Str(<<tok_b>>)>>
  ELSE <<Str(<<Decimal(1)>>), Str(<<Decimal(2)>>)>>

\* Lines 393-398: table[cols], a new table of the named columns in the
\* order of cols.
GetFilteredTable(columns, dtypes, cols) ==
  [c \in DOMAIN cols |->
     Column(cols[c],
            SampleValues(dtypes[CHOOSE i \in DOMAIN columns :
                                  columns[i] = cols[c]]))]

\* Lines 142-144.
DoGetFilteredTable ==
  /\ cpc = "filtered"
  /\ ltable_filtered' =
       GetFilteredTable(LColumns, ltable_dtypes,
                        [c \in DOMAIN corres_list |-> corres_list[c][1]])
  /\ rtable_filtered' =
       GetFilteredTable(RColumns, rtable_dtypes,
                        [c \in DOMAIN corres_list |-> corres_list[c][2]])
  /\ cpc' = "tables"
  /\ UNCHANGED <<ltable_dtypes, rtable_dtypes, attr_none, attr_corres,
                 auto_corres, corres_list>>
  /\ UNCHANGED <<lkey_index, rkey_index, feature_list, storeVars, ppc>>
  /\ UNCHANGED joinVars

\* ----------------------------------------------------------- token order

\* Python's < on strings: by code point, a proper prefix first.
StrLess(a, b) ==
  \E k \in 1..(Min(Len(a), Len(b)) + 1) :
    /\ \A i \in 1..(k - 1) : a[i] = b[i]
    /\ \/ k > Len(a) /\ k <= Len(b)
       \/ k <= Len(a) /\ k <= Len(b) /\ a[k] < b[k]

RECURSIVE SumOver(_, _)
SumOver(S, g) ==
  IF S = {} THEN 0
  ELSE LET x == CHOOSE x \in S : TRUE IN g[x] + SumOver(S \ {x}, g)

\* Lines 617-624: the number of entries of a record list that hold the token.
Occurrences(record_list, token) ==
  SumOver(DOMAIN record_list,
          [i \in DOMAIN record_list |->
             Cardinality({k \in DOMAIN record_list[i] :
                            record_list[i][k][1] = token})])

\* The token strings held by a record list.
TokensOf(record_list) ==
  UNION {{record_list[i][k][1] : k \in DOMAIN record_list[i]} :
           i \in DOMAIN record_list}

\* The frequencies are taken from the L records only.
FreqOrderDictLeftOnly(lrecords, rrecords) ==
  [token \in TokensOf(lrecords) \cup TokensOf(rrecords) |->
     Occurrences(lrecords, token)]

\* Lines 599-601 and 617-624: freq_order_dict after both tables are counted.
FreqOrderDict(lrecords, rrecords) ==
  [token \in TokensOf(lrecords) \cup TokensOf(rrecords) |->
     Occurrences(lrecords, token) + Occurrences(rrecords, token)]

\* Line 605: the sort key (freq, token) of a comes before that of b.
KeyLess(freq, a, b) ==
  \/ freq[a] < freq[b]
  \/ freq[a] = freq[b] /\ StrLess(a, b)

\* Line 605: sorted(token_list, key=(freq, token)).
RECURSIVE SortTokens(_, _)
SortTokens(tokens, freq) ==
  IF tokens = {} THEN <<>>
  ELSE LET first == CHOOSE t \in tokens :
                      \A u \in tokens \ {t} : KeyLess(freq, t, u)
       IN <<first>> \o SortTokens(tokens \ {first}, freq)

\* Lines 598-613: order_dict, token -> position in the sorted list.
BuildGlobalTokenOrder(lrecords, rrecords) ==
  LET freq_order_dict == FreqOrderDict(lrecords, rrecords)
      token_list == SortTokens(DOMAIN freq_order_dict, freq_order_dict)
  IN [token \in DOMAIN freq_order_dict |->
        (CHOOSE i \in DOMAIN token_list : token_list[i] = token) - 1]

\* Lines 627-635: (order_dict[token], index) for the tokens in order_dict.
ReplaceTokenWithNumericIndex(record_list, order) ==
  [i \in DOMAIN record_list |->
     LET kept == SelectSeq(record_list[i], LAMBDA tup : tup[1] \in DOMAIN order)
     IN [k \in DOMAIN kept |-> <<order[kept[k][1]], kept[k][2]>>]]

\* Line 640: sorted(record, key=x[0]), a stable sort.
RECURSIVE SortRecord(_)
SortRecord(record) ==
  IF record = <<>> THEN <<>>
  ELSE LET i == CHOOSE i \in DOMAIN record :
                  /\ \A k \in DOMAIN record : record[i][1] <= record[k][1]
                  /\ \A k \in 1..(i - 1) : record[k][1] > record[i][1]
       IN <<record[i]>> \o SortRecord(Pop(record, i))

\* Lines 638-640.
SortRecordTokensByGlobalOrder(record_list) ==
  [i \in DOMAIN record_list |-> SortRecord(record_list[i])]

\* Lines 643-655: the token array and the index array of every record.
SplitTokens(record_list) ==
  [i \in DOMAIN record_list |->
     [k \in DOMAIN record_list[i] |-> record_list[i][k][1]]]

SplitIndexes(record_list) ==
  [i \in DOMAIN record_list |->
     [k \in DOMAIN record_list[i] |-> record_list[i][k][2]]]

\* Lines 304-306: some stored index is not below num_field.
CalcTableFieldLengthRaises(record_index_list, num_field) ==
  \E i \in DOMAIN record_index_list :
    \E k \in DOMAIN record_index_list[i] :
      record_index_list[i][k] >= num_field

\* Lines 297-310: per record, the number of tokens of every field.
CalcTableFieldLength(record_index_list, num_field) ==
  [i \in DOMAIN record_index_list |->
     [f \in 0..(num_field - 1) |->
        Cardinality({k \in DOMAIN record_index_list[i] :
                       record_index_list[i][k] = f})]]

\* Lines 313-321: per field, the tokens summed over the records.
CalcTableFieldTokenSum(table_field_length_list, num_field) ==
  [f \in 0..(num_field - 1) |->
     SumOver(DOMAIN table_field_length_list,
             [i \in DOMAIN table_field_length_list |->
                table_field_length_list[i][f]])]

\* Lines 166-167.
DoBuildGlobalTokenOrder ==
  /\ ppc = "tokenized"
  /\ order_dict' = BuildGlobalTokenOrder(lrecord_list, rrecord_list)
  /\ ppc' = "ordered"
  /\ UNCHANGED <<tableVars, lkey_index, rkey_index, feature_list,
                 lrecord_list, rrecord_list,
                 lrecord_token_list, lrecord_index_list,
                 rrecord_token_list, rrecord_index_list,
                 ltable_field_length_list, rtable_field_length_list,
                 ltable_field_token_sum, rtable_field_token_sum>>
  /\ UNCHANGED <<corresVars, joinRest>>

\* Lines 171-172.
DoReplaceTokens ==
  /\ ppc = "ordered"
  /\ lrecord_list' = ReplaceTokenWithNumericIndex(lrecord_list, order_dict)
  /\ rrecord_list' = ReplaceTokenWithNumericIndex(rrecord_list, order_dict)
  /\ ppc' = "replaced"
  /\ UNCHANGED <<tableVars, lkey_index, rkey_index, feature_list, storeVars>>
  /\ UNCHANGED <<corresVars, joinRest>>

\* Lines 174-175.
DoSortRecords ==
  /\ ppc = "replaced"
  /\ lrecord_list' = SortRecordTokensByGlobalOrder(lrecord_list)
  /\ rrecord_list' = SortRecordTokensByGlobalOrder(rrecord_list)
  /\ ppc' = "sorted"
  /\ UNCHANGED <<tableVars, lkey_index, rkey_index, feature_list, storeVars>>
  /\ UNCHANGED <<corresVars, joinRest>>

\* Lines 177-180.
DoSplit ==
  /\ ppc = "sorted"
  /\ lrecord_token_list' = SplitTokens(lrecord_list)
  /\ lrecord_index_list' = SplitIndexes(lrecord_list)
  /\ rrecord_token_list' = SplitTokens(rrecord_list)
  /\ rrecord_index_list' = SplitIndexes(rrecord_list)
  /\ ppc' = "split"
  /\ UNCHANGED <<tableVars, lkey_index, rkey_index, feature_list,
                 lrecord_list, rrecord_list, order_dict,
                 ltable_field_length_list, rtable_field_length_list,
                 ltable_field_token_sum, rtable_field_token_sum>>
  /\ UNCHANGED <<corresVars, joinRest>>

\* Lines 191-195; the AssertionError of line 305 ends the call.
DoCalcFieldLengths ==
  /\ ppc = "split"
  /\ IF \/ CalcTableFieldLengthRaises(lrecord_index_list, Len(feature_list))
        \/ CalcTableFieldLengthRaises(rrecord_index_list, Len(feature_list))
     THEN /\ ppc' = "error_field_index"
          /\ UNCHANGED <<ltable_field_length_list, rtable_field_length_list,
                         ltable_field_token_sum, rtable_field_token_sum>>
     ELSE /\ ppc' = "stored"
          /\ ltable_field_length_list' =
               CalcTableFieldLength(lrecord_index_list, Len(feature_list))
          /\ rtable_field_length_list' =
               CalcTableFieldLength(rrecord_index_list, Len(feature_list))
          /\ ltable_field_token_sum' =
               CalcTableFieldTokenSum(ltable_field_length_list',
                                      Len(feature_list))
          /\ rtable_field_token_sum' =
               CalcTableFieldTokenSum(rtable_field_length_list',
                                      Len(feature_list))
  /\ UNCHANGED <<tableVars, lkey_index, rkey_index, feature_list,
                 lrecord_list, rrecord_list, order_dict,
                 lrecord_token_list, lrecord_index_list,
                 rrecord_token_list, rrecord_index_list>>
  /\ UNCHANGED <<corresVars, joinRest>>

\* ------------------------------------------------------- specifications

\* The correspondence part at rest (while the join tail is stepped).
CorresIdle ==
  /\ ltable_dtypes = [i \in DOMAIN LColumns |-> "O"]
  /\ rtable_dtypes = [i \in DOMAIN RColumns |-> "O"]
  /\ attr_none = TRUE
  /\ attr_corres = <<>>
  /\ auto_corres = <<>>
  /\ corres_list = <<>>
  /\ cpc = "idle"

\* The state of the calls in `runs` before line 185.
JoinStart ==
  /\ pc = [r \in runs |-> "start"]
  /\ py_cand_set = [r \in runs |-> <<>>]
  /\ n_use = [r \in runs |-> 0]
  /\ rec_lists = [r \in runs |-> <<>>]
  /\ py_rec_list = [r \in runs |-> <<>>]
  /\ ret = [r \in runs |-> <<>>]

\* The join tail at rest (while the correspondence part is stepped).
JoinIdle ==
  /\ runs = {}
  /\ lrecord_list = <<>>
  /\ rrecord_list = <<>>
  /\ candidate_set = {}
  /\ output_size = 1
  /\ n_configs = 1
  /\ n_cpus = 1
  /\ py_config_lists = <<>>
  /\ n_jobs = <<>>
  /\ JoinStart

\* The record stores before they are built.
StoreIdle ==
  /\ order_dict = <<>>
  /\ lrecord_token_list = <<>>
  /\ lrecord_index_list = <<>>
  /\ rrecord_token_list = <<>>
  /\ rrecord_index_list = <<>>
  /\ ltable_field_length_list = <<>>
  /\ rtable_field_length_list = <<>>
  /\ ltable_field_token_sum = <<>>
  /\ rtable_field_token_sum = <<>>

\* Lines 142-195 at rest (while another part is stepped).
PrepIdle ==
  /\ ltable_filtered = <<>>
  /\ rtable_filtered = <<>>
  /\ lkey_index = -1
  /\ rkey_index = -1
  /\ feature_list = <<>>
  /\ StoreIdle
  /\ ppc = "idle"

\* (n_jobs, n_configs) drawn when the tables vary.
JoinParams == {<<1, 1>>, <<2, -1>>, <<1, -2>>, <<1, 0>>}

\* One call; tables, candidate set and output_size vary.
Init ==
  /\ CorresIdle
  /\ PrepIdle
  /\ runs = {1}
  /\ lrecord_list \in [LIdx -> RecordPool]
  /\ rrecord_list \in [RIdx -> RecordPool]
  /\ candidate_set \in SUBSET CandRows
  /\ output_size \in 1..MaxK
  /\ \E p \in JoinParams : n_jobs = [r \in runs |-> p[1]] /\ n_configs = p[2]
  /\ n_cpus = MaxCpu
  /\ py_config_lists = ConfigCython(MaxN)
  /\ JoinStart

\* Calls are separate invocations of debug_blocker: a call is stepped once
\* the calls before it have returned or raised.
Turn(r) == \A q \in runs : q < r => pc[q] \in {"done", "value_error"}

JoinNext ==
  \/ \E r \in runs : Turn(r) /\ DoIndexCandidateSet(r)
  \/ \E r \in runs : Turn(r) /\ DoRejectConfigNum(r)
  \/ \E r \in runs : Turn(r) /\ DoGetConfigNum(r)
  \/ \E r \in runs : Turn(r) /\ DoWorker(r)
  \/ \E r \in runs : Turn(r) /\ DoMerge(r)
  \/ \E r \in runs : Turn(r) /\ DoReturn(r)

Next == JoinNext

Spec == Init /\ [][Next]_vars

\* Values of n_jobs and n_configs around every branch of _get_config_num.
NJobsRange == (0 - MaxCpu - 2)..(MaxCpu + 1)

NConfigsRange == (0 - 3)..MaxN

\* A sample pair of tables for the calls in which the parameters vary.
SampleL == [i \in LIdx |-> IF i = 0 THEN << <<0, 0>>, <<1, 1>> >>
                                    ELSE << <<2, 1>> >>]

SampleR == [i \in RIdx |-> IF i = 0 THEN << <<0, 0>>, <<2, 1>> >>
                                    ELSE << <<0, 0>>, <<1, 0>> >>]

\* Two calls on the same tables, candidate set, output_size and n_configs,
\* each with an n_jobs of its own; n_jobs, n_configs, the CPU count and the
\* number of generated configurations vary.
InitPair ==
  /\ CorresIdle
  /\ PrepIdle
  /\ runs = {1, 2}
  /\ lrecord_list = SampleL
  /\ rrecord_list = SampleR
  /\ candidate_set \in {{}, {<<11, 21>>}}
  /\ output_size = MaxK
  /\ n_jobs \in [runs -> NJobsRange]
  /\ n_configs \in NConfigsRange
  /\ n_cpus \in 1..MaxCpu
  /\ \E n \in 0..MaxN : py_config_lists = ConfigCython(n)
  /\ JoinStart

SpecPair == InitPair /\ [][Next]_vars

\* As InitPair, with both calls given a positive n_jobs (or 0).
InitPairPositive ==
  /\ InitPair
  /\ \A r \in runs : n_jobs[r] >= 0

SpecPairPositive == InitPairPositive /\ [][Next]_vars

\* The correspondence-list preparation; the dtypes, the caller's list and
\* the derived list vary.  The derived list is read only when the caller's
\* list is None or empty.
InitCorres ==
  /\ JoinIdle
  /\ PrepIdle
  /\ ltable_dtypes \in [DOMAIN LColumns -> DTypes]
  /\ rtable_dtypes \in [DOMAIN RColumns -> DTypes]
  /\ attr_none \in BOOLEAN
  /\ attr_corres \in (IF attr_none THEN {<<>>} ELSE SeqsUpTo(InputPairs, MaxCorres))
  /\ auto_corres \in (IF attr_none \/ attr_corres = <<>>
                      THEN DerivedLists ELSE {<<>>})
  /\ corres_list = <<>>
  /\ cpc = "start"

CorresNext ==
  \/ DoCheckInput
  \/ DoGetFieldCorrespondenceList
  \/ DoFilterCorresList
  \/ DoGetFilteredTable

SpecCorres == InitCorres /\ [][CorresNext]_vars

\* Filtered tables of at most this many columns have their features selected.
MaxColumns == 11

\* Columns of two records for the tables whose features are selected: the
\* L columns have weight 3/2 or 2, the R columns weight 0, 3/2 or 2.
LColumnPool == {<<Str(<<tok_a>>), Str(<<tok_a>>)>>,
                <<Str(<<tok_a>>), Str(<<tok_b>>)>>}

RColumnAt(c) ==
  IF c % 3 = 0 THEN <<NaN, EmptyStr>>
  ELSE IF c % 3 = 1 THEN <<Str(<<tok_a>>), EmptyStr>>
       ELSE <<Str(<<tok_a>>), Str(<<tok_b>>)>>

KeyValues == <<Str(<<tok_a_1>>), Str(<<tok_b_1>>)>>

\* Filtered tables of n columns with the keys at positions lk and rk.
SelectTables(n, lk, rk, lvalues) ==
  /\ ltable_filtered =
       [c \in 1..n |-> IF c - 1 = lk THEN Column(l_key, KeyValues)
                       ELSE Column("l" \o ToString(c - 1), lvalues[c])]
  /\ rtable_filtered =
       [c \in 1..n |-> IF c - 1 = rk THEN Column(r_key, KeyValues)
                       ELSE Column("r" \o ToString(c - 1), RColumnAt(c))]

\* _select_features on filtered tables of up to MaxColumns columns; the key
\* positions and the L columns vary, and one pair of tables has no record.
InitSelect ==
  /\ CorresIdle
  /\ JoinIdle
  /\ StoreIdle
  /\ \/ \E n \in 1..MaxColumns : \E lk \in 0..(n - 1) :
          \E rk \in {0, lk, n - 1} : \E lvalues \in [1..n -> LColumnPool] :
             SelectTables(n, lk, rk, lvalues)
     \/ /\ ltable_filtered = <<Column(l_key, <<>>)>>
        /\ rtable_filtered = <<Column(r_key, <<>>)>>
  /\ lkey_index = -1
  /\ rkey_index = -1
  /\ feature_list = <<>>
  /\ ppc = "tables"

SelectNext ==
  \/ DoSelectFeatures
  \/ DoSelectFeaturesRaise

SpecSelect == InitSelect /\ [][SelectNext]_vars

\* Cells of the text columns of the tables that are tokenized.
LCellPool == {Str(<<tok_a, tok_a>>), Str(<<tok_a_1>>), Str(<<tok_A, tok_b>>), NaN}

RCellPool == {Str(<<tok_a>>), Str(<<tok_b, <<>>, tok_a>>), EmptyStr,
              Str(<<tok_a_1, tok_b>>)}

\* A table of the key column at position k (0 or 1) and two text columns.
StoreTable(key, names, k, keys, ca, cb) ==
  IF k = 0 THEN <<Column(key, keys), Column(names[2], ca), Column(names[3], cb)>>
  ELSE <<Column(names[2], ca), Column(key, keys), Column(names[3], cb)>>

\* Lines 142-195 on an L table of two records and an R table of one
\* record; the text cells and the position of the key columns vary.
InitStore ==
  /\ CorresIdle
  /\ JoinIdle
  /\ StoreIdle
  /\ \E k \in {0, 1} :
       /\ \E ca, cb \in [1..2 -> LCellPool] :
            ltable_filtered = StoreTable(l_key, LColumns, k, KeyValues, ca, cb)
       /\ \E ca, cb \in [1..1 -> RCellPool] :
            rtable_filtered =
              StoreTable(r_key, RColumns, k, SubSeq(KeyValues, 1, 1), ca, cb)
  /\ lkey_index = -1
  /\ rkey_index = -1
  /\ feature_list = <<>>
  /\ ppc = "tables"

StoreNext ==
  \/ DoSelectFeatures
  \/ DoTokenize
  \/ DoBuildGlobalTokenOrder
  \/ DoReplaceTokens
  \/ DoSortRecords
  \/ DoSplit
  \/ DoCalcFieldLengths

SpecStore == InitStore /\ [][StoreNext]_vars

\* A call of debug_blocker in its three parts: the correspondence list and
\* the filtered tables (lines 126-144), the features and the record stores
\* (lines 147-195) and the join tail (lines 185-205), each from the inputs
\* of its own specification.
InitCall ==
  \/ InitCorres
  \/ InitStore
  \/ Init

CallNext ==
  \/ CorresNext
  \/ StoreNext
  \/ JoinNext

SpecCall == InitCall /\ [][CallNext]_vars

\* ================================================================ claims

\* --- helpers of the statements below

KeyPair == <<l_key, r_key>>

\* Number of positions of list holding x.
Count(list, x) == Cardinality({i \in DOMAIN list : list[i] = x})

\* The dtype of a named column.
LDType(name) == ltable_dtypes[CHOOSE i \in DOMAIN LColumns : LColumns[i] = name]

RDType(name) == rtable_dtypes[CHOOSE i \in DOMAIN RColumns : RColumns[i] = name]

\* _filter_corres_list has run (it returned or raised).
AfterFilter == cpc \in {"filtered", "error_filter"}

\* The list the preparation started from.
GivenList == IF attr_none \/ attr_corres = <<>> THEN auto_corres ELSE attr_corres

\* C9 (as claimed): once _filter_corres_list has run, if no pair other than
\* the key pair has a non-numeric side, the call has failed.
C9_FailsWithoutTextPair ==
  AfterFilter =>
    ((\A i \in DOMAIN corres_list :
         \/ corres_list[i] = KeyPair
         \/ (LDType(corres_list[i][1]) # "O" /\ RDType(corres_list[i][2]) # "O"))
      => cpc = "error_filter")

\* C10 (as claimed): once _filter_corres_list has run, the key pair is the
\* last element of the list and occurs exactly once.
C10_KeyPairLastOnce ==
  AfterFilter =>
    /\ Len(corres_list) >= 1
    /\ corres_list[Len(corres_list)] = KeyPair
    /\ Count(corres_list, KeyPair) = 1

\* C10 (amended): once _filter_corres_list has run, the list contains the key
\* pair; if the list the preparation started from did not contain the key
\* pair, the key pair is the last element and occurs exactly once; otherwise
\* it occurs as often as in that list (it is not appended again).
C10_KeyPairKept ==
  AfterFilter =>
    /\ KeyPair \in Elems(corres_list)
    /\ KeyPair \notin Elems(GivenList) =>
         /\ corres_list[Len(corres_list)] = KeyPair
         /\ Count(corres_list, KeyPair) = 1
    /\ KeyPair \in Elems(GivenList) =>
         Count(corres_list, KeyPair) = Count(GivenList, KeyPair)

\* C10 witness: a caller's list without the key pair, of which a numeric pair
\* was filtered out and a textual pair kept, ends with the key pair.
C10_Witness ==
  /\ cpc = "filtered"
  /\ ~attr_none
  /\ Len(attr_corres) = 2
  /\ KeyPair \notin Elems(attr_corres)
  /\ Len(corres_list) = 2
  /\ LDType(corres_list[1][1]) = "O"
  /\ corres_list[2] = KeyPair

\* --- the join tail

\* Number of generated configurations.
NTotal == Len(py_config_lists)

\* The call has passed _get_config_num without an error.
Resolved(r) == pc[r] \in {"parallel", "merged", "done"}

\* (l_idx, r_idx) is a pair of the candidate set: some row holds the ids of
\* the two records.
InCandidateSet(l, r) ==
  \E row \in candidate_set :
    row[1] = ltable_key_column[l] /\ row[2] = rtable_key_column[r]

\* The pairs (l_idx, r_idx) of a list of entries.
PairsOf(list) == {<<list[i][2], list[i][3]>> : i \in DOMAIN list}

\* C1: no entry of a worker's list, of the merged list or of the returned
\* list is a pair of the candidate set.
C1_OutputOutsideCandidateSet ==
  \A r \in runs :
    /\ \A i \in DOMAIN rec_lists[r] :
         \A p \in PairsOf(rec_lists[r][i]) : ~InCandidateSet(p[1], p[2])
    /\ \A p \in PairsOf(py_rec_list[r]) : ~InCandidateSet(p[1], p[2])
    /\ \A p \in PairsOf(ret[r]) : ~InCandidateSet(p[1], p[2])

\* C1 witness: a call returned pairs although the candidate set holds a
\* pair of records that share a token under the first configuration.
C1_Witness ==
  \E r \in runs :
    /\ pc[r] = "done"
    /\ ret[r] # <<>>
    /\ \E l \in LIdx, q \in RIdx :
         /\ InCandidateSet(l, q)
         /\ Signature(lrecord_list[l], py_config_lists[1])
              \cap Signature(rrecord_list[q], py_config_lists[1]) # {}

\* The pairs outside the candidate set.
Available == {p \in LIdx \X RIdx : ~InCandidateSet(p[1], p[2])}

\* The pairs outside the candidate set whose signatures share a token under
\* one of the evaluated configurations.
Found(r) ==
  {p \in Available : \E i \in Elems(Range(n_use[r])) :
     Signature(lrecord_list[p[1]], py_config_lists[i + 1])
       \cap Signature(rrecord_list[p[2]], py_config_lists[i + 1]) # {}}

SimGreater(s, t) == s[1] * t[2] > t[1] * s[2]

\* The list is strictly ordered by (descending sim, ascending l_idx,
\* ascending r_idx) and holds no (l_idx, r_idx) twice.
StrictlyOrdered(list) ==
  /\ \A i \in 1..(Len(list) - 1) :
       \/ SimGreater(list[i][1], list[i + 1][1])
       \/ /\ list[i][1][1] * list[i + 1][1][2] = list[i + 1][1][1] * list[i][1][2]
          /\ \/ list[i][2] < list[i + 1][2]
             \/ list[i][2] = list[i + 1][2] /\ list[i][3] < list[i + 1][3]
  /\ \A i, j \in DOMAIN list :
       (list[i][2] = list[j][2] /\ list[i][3] = list[j][3]) => i = j

\* C4: the merged list and the returned list are strictly ordered and free
\* of duplicate pairs, and an entry of the merged list carries the greatest
\* sim any worker reported for its pair.
C4_MergedOrderedDistinct ==
  \A r \in runs :
    pc[r] \in {"merged", "done"} =>
      /\ StrictlyOrdered(py_rec_list[r])
      /\ StrictlyOrdered(ret[r])
      /\ \A k \in DOMAIN py_rec_list[r] :
           /\ \E i \in DOMAIN rec_lists[r] :
                py_rec_list[r][k] \in Elems(rec_lists[r][i])
           /\ \A i \in DOMAIN rec_lists[r] : \A e \in Elems(rec_lists[r][i]) :
                (e[2] = py_rec_list[r][k][2] /\ e[3] = py_rec_list[r][k][3])
                  => ~SimGreater(e[1], py_rec_list[r][k][1])

\* C4 witness: two workers reported the same pair with different sims and
\* the pair was returned.
C4_Witness ==
  \E r \in runs :
    /\ pc[r] = "done"
    /\ \E i, j \in DOMAIN rec_lists[r] :
         \E e \in Elems(rec_lists[r][i]), o \in Elems(rec_lists[r][j]) :
           /\ e[2] = o[2] /\ e[3] = o[3]
           /\ SimGreater(e[1], o[1])
           /\ e \in Elems(ret[r])

\* --- configuration count resolution

\* The call's arguments are accepted by _get_config_num.
Accepted(r) == n_jobs[r] # 0 /\ n_configs # 0 /\ n_configs >= -2

\* C3 (as claimed): two calls that differ only in an accepted n_jobs and
\* have both returned evaluated the same configurations and returned the
\* same list.
C3_IndependentOfNJobs ==
  \A r1, r2 \in runs :
    (Accepted(r1) /\ Accepted(r2) /\ pc[r1] = "done" /\ pc[r2] = "done") =>
      /\ DOMAIN rec_lists[r1] = DOMAIN rec_lists[r2]
      /\ ret[r1] = ret[r2]

\* X of the claim: the number requested before the clamp to N.
C5_X(r) ==
  IF n_configs = -2 THEN NTotal
  ELSE IF n_configs = -1 /\ n_jobs[r] < 0 THEN n_cpus + 1 + n_jobs[r]
  ELSE IF n_configs = -1 /\ n_jobs[r] > 0 THEN n_jobs[r]
  ELSE n_configs

C7_FloorOfOne ==
  \A r1, r2 \in runs :
    (/\ n_jobs[r1] = 1
     /\ n_jobs[r2] < 0
     /\ n_cpus + 1 + n_jobs[r2] < 1
     /\ pc[r1] = "done") =>
       (pc[r2] \notin {"start", "indexed", "parallel", "merged"} =>
          /\ pc[r2] = "done"
          /\ DOMAIN rec_lists[r2] = DOMAIN rec_lists[r1]
          /\ (NTotal >= 1 => Cardinality(DOMAIN rec_lists[r2]) >= 1)
          /\ ret[r2] = ret[r1])

Score(i) ==
  WeightProduct(GetFeatureWeight(ltable_filtered)[i + 1],
                GetFeatureWeight(rtable_filtered)[i + 1])

\* The column positions other than the two key positions.
NonKey ==
  {i \in 0..(Len(ltable_filtered) - 1) : i # lkey_index /\ i # rkey_index}

\* C11: _select_features returns min(m, 8) distinct non-key positions, m
\* being the number of non-key positions, in non-increasing order of score,
\* and no omitted non-key position scores strictly higher than a returned
\* one.
C11_SelectedFeatures ==
  ppc \in {"features", "error_no_features"} =>
    LET Returned == Elems(feature_list)
    IN /\ Len(feature_list) = Min(Cardinality(NonKey), 8)
       /\ Cardinality(Returned) = Len(feature_list)
       /\ Returned \subseteq NonKey
       /\ \A j \in 1..(Len(feature_list) - 1) :
            ~WeightLess(Score(feature_list[j]), Score(feature_list[j + 1]))
       /\ \A i \in NonKey \ Returned : \A j \in Returned :
            ~WeightLess(Score(j), Score(i))

\* Eight of more than eight non-key columns are returned, the keys stand at
\* different positions, and the returned scores hold a tie and a drop.
C11_Witness ==
  /\ ppc = "features"
  /\ lkey_index # rkey_index
  /\ Cardinality(NonKey) > 8
  /\ Len(feature_list) = 8
  /\ ~WeightLess(Score(feature_list[2]), Score(feature_list[1]))
  /\ WeightLess(Score(feature_list[8]), Score(feature_list[1]))

\* ----------------------------------------------------------------- C12

\* The entries of every record of the list hold pairwise different tokens.
DistinctTokens(record_list) ==
  \A i \in DOMAIN record_list :
    \A a, b \in DOMAIN record_list[i] :
      a # b => record_list[i][a][1] # record_list[i][b][1]

\* Every token array of the list is strictly ascending.
StrictlyAscending(record_token_list) ==
  \A i \in DOMAIN record_token_list :
    \A k \in 1..(Len(record_token_list[i]) - 1) :
      record_token_list[i][k] < record_token_list[i][k + 1]

\* C12: the token strings emitted for a record are pairwise distinct once
\* the repeated tokens are suffixed, whatever the cells hold, so the token
\* array of every record is strictly ascending after the ranks replace the
\* strings and the record is sorted.
C12_TokensDistinct ==
  /\ ppc = "tokenized" =>
       DistinctTokens(lrecord_list) /\ DistinctTokens(rrecord_list)
  /\ ppc \in {"split", "stored"} =>
       /\ StrictlyAscending(lrecord_token_list)
       /\ StrictlyAscending(rrecord_token_list)

\* ----------------------------------------------------------------- C13

\* The number of non-empty tokens of a cell.
NonEmptyTokens(cell) ==
  IF cell.null THEN 0
  ELSE Cardinality({p \in DOMAIN cell.pieces : cell.pieces[p] # <<>>})

\* The token and field arrays of a table agree with its cells: equally long
\* arrays, every field below the number of features, and as many entries of
\* field j in record i as the cell of the j-th selected column of record i
\* has non-empty tokens.
StoreAgrees(table, record_token_list, record_index_list) ==
  \A i \in DOMAIN record_token_list :
    /\ Len(record_token_list[i]) = Len(record_index_list[i])
    /\ \A k \in DOMAIN record_index_list[i] :
         record_index_list[i][k] \in 0..(Len(feature_list) - 1)
    /\ \A j \in 0..(Len(feature_list) - 1) :
         Cardinality({k \in DOMAIN record_index_list[i] :
                        record_index_list[i][k] = j})
           = NonEmptyTokens(table[feature_list[j + 1] + 1].values[i + 1])

\* The tokens stored for a table.
StoredTokens(record_token_list) ==
  SumOver(DOMAIN record_token_list,
          [i \in DOMAIN record_token_list |-> Len(record_token_list[i])])

\* C13: once the record stores are split, the token and field arrays of
\* every record are equally long, every non-empty token of a selected
\* column has exactly one entry whose field is the column's position in the
\* feature list (below the number of features), the assertion of
\* _calc_table_field_length is not raised, and the per-field totals sum to
\* the number of stored tokens.
C13_StoreKeepsEveryToken ==
  /\ ppc # "error_field_index"
  /\ ppc \in {"split", "stored"} =>
       /\ DOMAIN lrecord_token_list = 0..(Len(ltable_filtered[1].values) - 1)
       /\ DOMAIN rrecord_token_list = 0..(Len(rtable_filtered[1].values) - 1)
       /\ StoreAgrees(ltable_filtered, lrecord_token_list, lrecord_index_list)
       /\ StoreAgrees(rtable_filtered, rrecord_token_list, rrecord_index_list)
  /\ ppc = "stored" =>
       /\ SumOver(DOMAIN ltable_field_token_sum, ltable_field_token_sum)
            = StoredTokens(lrecord_token_list)
       /\ SumOver(DOMAIN rtable_field_token_sum, rtable_field_token_sum)
            = StoredTokens(rrecord_token_list)

\* The stores are complete, both fields hold L tokens, a cell of the R
\* record holds an empty token next to two others, and the first feature is
\* not the first column.
C13_Witness ==
  /\ ppc = "stored"
  /\ ltable_field_token_sum[0] > 0
  /\ ltable_field_token_sum[1] > 0
  /\ \E c \in DOMAIN rtable_filtered :
       rtable_filtered[c].values[1] = Str(<<tok_b, <<>>, tok_a>>)
  /\ StoredTokens(rrecord_token_list) >= 2
  /\ feature_list[1] # 0

\* ----------------------------------------------------------------- C14

\* The places (table, record, position) of the two record lists.
TokenPlaces ==
  UNION {{<<"L", i, k>> : k \in DOMAIN lrecord_list[i]} :
           i \in DOMAIN lrecord_list}
    \cup UNION {{<<"R", i, k>> : k \in DOMAIN rrecord_list[i]} :
                  i \in DOMAIN rrecord_list}

\* The token string at a place.
TokenAt(place) ==
  IF place[1] = "L" THEN lrecord_list[place[2]][place[3]][1]
  ELSE rrecord_list[place[2]][place[3]][1]

\* The distinct token strings of the L and R records.
Vocabulary == {TokenAt(place) : place \in TokenPlaces}

\* count(t): the occurrences of t over all records of both tables.
TokenCount(t) == Cardinality({place \in TokenPlaces : TokenAt(place) = t})

\* C14: _build_global_token_order returns a bijection between the distinct
\* token strings of the L and R records and the ranks 0..|V|-1, and
\* rank(a) < rank(b) exactly when (count(a), a) < (count(b), b).
C14_RankIsFrequencyOrder ==
  ppc = "ordered" =>
    /\ DOMAIN order_dict = Vocabulary
    /\ {order_dict[t] : t \in Vocabulary} = 0..(Cardinality(Vocabulary) - 1)
    /\ \A a, b \in Vocabulary :
         /\ order_dict[a] = order_dict[b] => a = b
         /\ order_dict[a] < order_dict[b]
              <=> \/ TokenCount(a) < TokenCount(b)
                  \/ TokenCount(a) = TokenCount(b) /\ StrLess(a, b)

\* The order is built over three or more tokens, one of which occurs in
\* both tables; two tokens tie on the count, and a token that is the
\* smaller string ranks after another because it occurs more often.
C14_Witness ==
  /\ ppc = "ordered"
  /\ Cardinality(Vocabulary) >= 3
  /\ TokensOf(lrecord_list) \cap TokensOf(rrecord_list) # {}
  /\ \E a, b \in Vocabulary : a # b /\ TokenCount(a) = TokenCount(b)
  /\ \E a, b \in Vocabulary :
       StrLess(a, b) /\ order_dict[a] > order_dict[b]

\* ----------------------------------------------------------------- C15

\* The rows of the candidate set whose two ids are ids of records.
KnownRows ==
  {row \in candidate_set :
     /\ \E l \in LIdx : ltable_key_column[l] = row[1]
     /\ \E q \in RIdx : rtable_key_column[q] = row[2]}

\* C15: once the candidate set is indexed, q is in excl[l] exactly when a
\* row holds the id of L record l and the id of R record q; the index has
\* no other entry, rows with an id of no record change nothing and raise
\* nothing, and the empty candidate set gives the empty index.
C15_IndexIsCandidateSet ==
  \A r \in runs :
    pc[r] # "start" =>
      /\ \A l \in LIdx, q \in RIdx :
           (l \in DOMAIN py_cand_set[r] /\ q \in py_cand_set[r][l])
             <=> InCandidateSet(l, q)
      /\ DOMAIN py_cand_set[r] \subseteq LIdx
      /\ \A l \in DOMAIN py_cand_set[r] :
           py_cand_set[r][l] # {} /\ py_cand_set[r][l] \subseteq RIdx
      /\ KnownRows = {} => DOMAIN py_cand_set[r] = {}

\* The candidate set is indexed; it holds two rows of the same L record, a
\* row whose left id and a row whose right id is the id of no record.
C15_Witness ==
  \E r \in runs :
    /\ pc[r] = "indexed"
    /\ candidate_set = {<<11, 20>>, <<11, 21>>, <<99, 20>>, <<10, 98>>}
    /\ DOMAIN py_cand_set[r] = {0}
    /\ py_cand_set[r][0] = {0, 1}

\* ----------------------------------------------------------------- C16

\* What the caller handed in: the tables (their dtypes, in the
\* correspondence part), the attr_corres argument and the candidate set.
callerVars == <<ltable_dtypes, rtable_dtypes, attr_none, attr_corres,
                candidate_set>>

=============================================================================
